---- MODULE Spec2Model ----
(***************************************************************************)
(* The Actron Air Neo integration: the vendor API client                   *)
(* (custom_components/actron_air_neo/api.py), the zone climate entity      *)
(* (custom_components/actron/climate.py), the system climate entity        *)
(* (custom_components/actron_air_neo/climate.py) and the zone sensors      *)
(* (custom_components/actron/sensor.py).                                   *)
(*                                                                         *)
(* A Python dict is a function whose domain is its key set, a Python list  *)
(* a sequence, a Python str a string; None is the value None below.        *)
(* One call runs at a time (the host serialises calls on its event loop);  *)
(* every await of an HTTP response is a step of its own, and the response  *)
(* is an input chosen by the backend.                                      *)
(***************************************************************************)
EXTENDS Naturals, Sequences, FiniteSets, TLC

VARIABLES
    bearer_token,   \* ActronApi.bearer_token
    session,        \* ActronApi.session: "open", or None after close()
    api_pc,         \* where the running ActronApi call waits: "idle" or the request awaited
    api_op,         \* the public method that runs, or ran last
    api_args,       \* its arguments
    api_reqs,       \* the HTTP requests the current call has issued on the session
    api_resps,      \* the responses the current call has received
    pairing_token,  \* authenticate's local pairing_token
    api_result,     \* how the last call ended: returned a value, or raised
    auth_ok,        \* history: some authenticate() has returned without raising
    auth_token,     \* history: what the last such authenticate() stored
    closes          \* history: how often session.close() ran (counted up to MaxCloses)

api_vars == <<bearer_token, session, api_pc, api_op, api_args, api_reqs, api_resps,
              pairing_token, api_result, auth_ok, auth_token, closes>>

VARIABLES
    coord_data,     \* coordinator.data of the last snapshot: main's is_on and mode, and
                    \* the setpoints of the entity's zone
    cl_pc,          \* where the running entity call waits: "idle", "send", "refresh", ...
    cl_op,          \* the entity method that runs, or ran last
    cl_arg,         \* its argument
    cl_prev,        \* history: the call before it, with what it asked and how its write ended
    cl_trace,       \* what the current call has asked of the API and the coordinator, in order
    cl_log,         \* what the current call has logged with _LOGGER.error
    cl_send_exc,    \* history: the exception the current call's command write raised, or None
    cl_result       \* how the last call ended

cl_vars == <<coord_data, cl_pc, cl_op, cl_arg, cl_prev, cl_trace, cl_log, cl_send_exc,
             cl_result>>

VARIABLES
    neo_data,       \* coordinator.data['main'] of the actron_air_neo coordinator
    neo_pc,         \* where the running call of the actron_air_neo entity waits
    neo_op,         \* the entity method that runs, or ran last
    neo_arg,        \* its argument
    neo_trace,      \* the coordinator methods the current call has called
    neo_result      \* how the last call ended

neo_vars == <<neo_data, neo_pc, neo_op, neo_arg, neo_trace, neo_result>>

VARIABLES
    sn_state,       \* the zone sensors' _state, one per sensor class
    sn_pc,          \* where the running async_update waits: "idle" or "get_status"
    sn_kind,        \* the sensor whose async_update runs, or ran last
    sn_before,      \* history: that sensor's _state when the update began
    sn_fetch,       \* history: how the update's get_status ended
    sn_log,         \* what the current update has logged with _LOGGER.error
    sn_result       \* how the last async_update ended

sn_vars == <<sn_state, sn_pc, sn_kind, sn_before, sn_fetch, sn_log, sn_result>>

VARIABLES
    cl_view,        \* what the host last read off the zone entity's properties
    neo_view        \* what the host last read off the system entity's properties

view_vars == <<cl_view, neo_view>>

-----------------------------------------------------------------------------
(* Python values *)

None == "<None>"

\* `not v` for v None or a str
Falsy(v) == v = None \/ v = ""

\* str(v) as an f-string formats it
Str(v) == IF v = None THEN "None" ELSE v

\* str(n) for the status codes the backend answers with
StatusStr(n) ==
    CASE n = 200 -> "200"
      [] n = 204 -> "204"
      [] n = 401 -> "401"
      [] n = 500 -> "500"

EmptyDict == [k \in {} |-> None]

\* an optional argument (headers, data, json): Absent for None, Given(v) for a value v
Absent == {}
Given(v) == {v}
The(opt) == CHOOSE v \in opt : TRUE

\* d.get(k, default)
Get(d, k, default) == IF k \in DOMAIN d THEN d[k] ELSE default

-----------------------------------------------------------------------------
(* Bounds and input domains *)

MaxDevices == 2          \* longest _embedded.ac-system list the backend answers with
MaxCloses == 2           \* close() calls counted

SeqUpTo(S, n) == UNION {[1..k -> S] : k \in 0..n}

Serials == {"S1", "S2"}
PairingTokens == {"pairA", "pairB"}
AccessTokens == {None, "", "tokA", "tokB"}   \* JSON null, "", and two proper tokens
ErrorStatuses == {204, 401, 500}
BodyTexts == {"", "denied"}
ClientErrors == {"Cannot connect to host"}

\* one entry of _embedded.ac-system: any of its fields may be missing
Systems ==
    UNION {[ks -> {"S1", "S2", "Lounge", "neo"}] : ks \in SUBSET {"serial", "description", "type"}}

WellTyped(s) ==
    /\ "serial" \in DOMAIN s => s["serial"] \in Serials
    /\ "description" \in DOMAIN s => s["description"] = "Lounge"
    /\ "type" \in DOMAIN s => s["type"] = "neo"

DeviceDocs ==
    {EmptyDict, [_embedded |-> EmptyDict]}
      \cup {[_embedded |-> ("ac-system" :> l)] :
               l \in SeqUpTo({s \in Systems : WellTyped(s)}, MaxDevices)}

StatusDocs == {[isOnline |-> "true"], [isOnline |-> "false"]}
CommandDocs == {[type |-> "ack"]}

\* the field mappings handed to send_command
CommandKeys == {"UserAirconSettings.isOn", "UserAirconSettings.Mode", "type"}
CommandValue(k) ==
    CASE k = "UserAirconSettings.isOn" -> BOOLEAN
      [] k = "UserAirconSettings.Mode" -> {"COOL"}
      [] k = "type" -> {"user-type"}
RECURSIVE Dicts(_)
Dicts(ks) ==
    IF ks = {} THEN {EmptyDict}
    ELSE LET k == CHOOSE k \in ks : TRUE
             rest == Dicts(ks \ {k})
         IN  rest \cup {d @@ (k :> v) : d \in rest, v \in CommandValue(k)}
Commands == Dicts(CommandKeys)

-----------------------------------------------------------------------------
(* const.py *)

API_URL == "https://api"
CMD_SET_SETTINGS == "set-settings"

-----------------------------------------------------------------------------
(* ActronApi *)

ApiInit ==
    /\ bearer_token = None
    /\ session = "open"
    /\ api_pc = "idle"
    /\ api_op = None
    /\ api_args = EmptyDict
    /\ api_reqs = <<>>
    /\ api_resps = <<>>
    /\ pairing_token = None
    /\ api_result = [kind |-> "none"]
    /\ auth_ok = FALSE
    /\ auth_token = None
    /\ closes = 0

Returned(v) == [kind |-> "return", value |-> v]
Raised(e, m) == [kind |-> "raise", exc |-> e, msg |-> m]
Pending == [kind |-> "pending"]

\* the precondition testing for the empty string only, so that None passes it
NotAuthenticated_EmptyOnly(auth_required) == auth_required /\ bearer_token = ""

\* _make_request, line 76: the precondition on the bearer token
NotAuthenticated(auth_required) == auth_required /\ Falsy(bearer_token)

\* the Authorization header put on every request, the token exchanges included
RequestHeaders_Always(headers, auth_required) ==
    LET h == IF headers = Absent THEN EmptyDict ELSE The(headers)
    IN  [k \in DOMAIN h \cup {"Authorization"} |->
            IF k = "Authorization" THEN "Bearer " \o Str(bearer_token) ELSE h[k]]

\* _make_request, lines 79-82: the headers of the request
RequestHeaders(headers, auth_required) ==
    LET h == IF headers = Absent THEN EmptyDict ELSE The(headers)
    IN  IF auth_required
        THEN [k \in DOMAIN h \cup {"Authorization"} |->
                 IF k = "Authorization" THEN "Bearer " \o Str(bearer_token) ELSE h[k]]
        ELSE h

\* _make_request up to the await of session.request: raises, or issues the request and
\* waits for its response at `pc`
MakeRequest(pc, url, method, headers, data, json, auth_required) ==
    IF NotAuthenticated(auth_required)
    THEN /\ api_result' = Raised("AuthenticationError", <<"Not authenticated">>)
         /\ api_pc' = "idle"
         /\ api_reqs' = <<>>
    ELSE IF session = None
    THEN \* None has no attribute 'request'
         /\ api_result' = Raised("AttributeError", <<"request">>)
         /\ api_pc' = "idle"
         /\ api_reqs' = <<>>
    ELSE /\ api_reqs' = <<[method |-> method, url |-> url,
                           headers |-> RequestHeaders(headers, auth_required),
                           data |-> data, json |-> json]>>
         /\ api_pc' = pc
         /\ api_result' = Pending

FormHeaders == "Content-Type" :> "application/x-www-form-urlencoded"

\* _request_pairing_token, lines 24-32
PairingUrl == API_URL \o "/api/v0/client/user-devices"
PairingData ==
    [username |-> "user", password |-> "secret", client |-> "ios",
     deviceName |-> "HomeAssistant", deviceUniqueIdentifier |-> "HomeAssistant"]

\* _request_bearer_token, lines 38-44
BearerUrl == API_URL \o "/api/v0/oauth/token"
\* the form carrying authenticate's local as it was before the pairing answer
BearerData_Stale(pairing) ==
    [grant_type |-> "refresh_token", refresh_token |-> pairing_token, client_id |-> "app"]
BearerData(pairing) ==
    [grant_type |-> "refresh_token", refresh_token |-> pairing, client_id |-> "app"]

DevicesUrl == API_URL \o "/api/v0/client/ac-systems?includeNeo=true"
StatusUrl(serial) == API_URL \o "/api/v0/client/ac-systems/status/latest?serial=" \o serial
CommandUrl(serial) == API_URL \o "/api/v0/client/ac-systems/cmds/send?serial=" \o serial

Begin(op, args) ==
    /\ api_pc = "idle"
    /\ api_op' = op
    /\ api_args' = args
    /\ api_resps' = <<>>
    /\ pairing_token' = None

\* authenticate(), up to the await of the pairing-token response
authenticate ==
    /\ Begin("authenticate", EmptyDict)
    /\ MakeRequest("pairing", PairingUrl, "POST", Given(FormHeaders), Given(PairingData),
                   Absent, FALSE)
    /\ UNCHANGED <<bearer_token, session, auth_ok, auth_token, closes, cl_vars, neo_vars, sn_vars, view_vars>>

\* get_devices(), up to the await of the response
get_devices ==
    /\ Begin("get_devices", EmptyDict)
    /\ MakeRequest("devices", DevicesUrl, "GET", Absent, Absent, Absent, TRUE)
    /\ UNCHANGED <<bearer_token, session, auth_ok, auth_token, closes, cl_vars, neo_vars, sn_vars, view_vars>>

\* get_ac_status(serial), up to the await of the response
get_ac_status(serial) ==
    /\ Begin("get_ac_status", [serial |-> serial])
    /\ MakeRequest("status", StatusUrl(serial), "GET", Absent, Absent, Absent, TRUE)
    /\ UNCHANGED <<bearer_token, session, auth_ok, auth_token, closes, cl_vars, neo_vars, sn_vars, view_vars>>

\* the envelope merged the other way round, {"type": ..., **command}
CommandEnvelope_TagFirst(command) ==
    [command |-> [k \in DOMAIN command \cup {"type"} |->
                     IF k \in DOMAIN command THEN command[k] ELSE CMD_SET_SETTINGS]]

\* send_command, line 71: the command envelope
CommandEnvelope(command) ==
    [command |-> [k \in DOMAIN command \cup {"type"} |->
                     IF k = "type" THEN CMD_SET_SETTINGS ELSE command[k]]]

\* send_command(serial, command), up to the await of the response
send_command(serial, command) ==
    /\ Begin("send_command", [serial |-> serial, command |-> command])
    /\ MakeRequest("command", CommandUrl(serial), "POST", Absent, Absent,
                   Given(CommandEnvelope(command)), TRUE)
    /\ UNCHANGED <<bearer_token, session, auth_ok, auth_token, closes, cl_vars, neo_vars, sn_vars, view_vars>>

\* a close() that closes the session and keeps the reference to it
close_KeepsReference ==
    /\ api_pc = "idle"
    /\ api_op' = "close"
    /\ api_args' = EmptyDict
    /\ api_reqs' = <<>>
    /\ api_resps' = <<>>
    /\ pairing_token' = None
    /\ api_result' = Returned(None)
    /\ closes' = IF closes < MaxCloses THEN closes + 1 ELSE closes
    /\ UNCHANGED <<bearer_token, session, api_pc, auth_ok, auth_token, cl_vars, neo_vars, sn_vars, view_vars>>

\* close()
close ==
    /\ api_pc = "idle"
    /\ api_op' = "close"
    /\ api_args' = EmptyDict
    /\ api_reqs' = <<>>
    /\ api_resps' = <<>>
    /\ pairing_token' = None
    /\ api_result' = Returned(None)
    /\ IF session # None
       THEN /\ session' = None
            /\ closes' = IF closes < MaxCloses THEN closes + 1 ELSE closes
       ELSE UNCHANGED <<session, closes>>
    /\ UNCHANGED <<bearer_token, api_pc, auth_ok, auth_token, cl_vars, neo_vars, sn_vars, view_vars>>

\* the descriptors collected last system first
RECURSIVE DeviceList_Reversed(_)
DeviceList_Reversed(systems) ==
    IF systems = <<>> THEN <<>>
    ELSE LET system == systems[1]
         IN  Append(DeviceList_Reversed(SubSeq(systems, 2, Len(systems))),
                    [serial |-> Get(system, "serial", "Unknown"),
                     name |-> Get(system, "description", "Unknown Device"),
                     type |-> Get(system, "type", "Unknown")])

\* get_devices, lines 53-62: the descriptors of the systems of a response
RECURSIVE DeviceList(_)
DeviceList(systems) ==
    IF systems = <<>> THEN <<>>
    ELSE LET system == systems[Len(systems)]
         IN  Append(DeviceList(SubSeq(systems, 1, Len(systems) - 1)),
                    [serial |-> Get(system, "serial", "Unknown"),
                     name |-> Get(system, "description", "Unknown Device"),
                     type |-> Get(system, "type", "Unknown")])

ParseDevices(response) ==
    IF "_embedded" \in DOMAIN response /\ "ac-system" \in DOMAIN response["_embedded"]
    THEN DeviceList(response["_embedded"]["ac-system"])
    ELSE <<>>

\* the JSON documents a 200 answer to the awaited request may carry
Json200(pc) ==
    CASE pc = "pairing" -> {[pairingToken |-> p] : p \in PairingTokens} \cup {EmptyDict}
      [] pc = "bearer" -> {[access_token |-> t] : t \in AccessTokens} \cup {EmptyDict}
      [] pc = "devices" -> DeviceDocs
      [] pc = "status" -> StatusDocs
      [] pc = "command" -> CommandDocs
      [] OTHER -> {}

\* the message without the body text
StatusErrorMessage_NoText(status, text) == <<"API request failed: ", StatusStr(status)>>

\* _make_request, line 93: the message of the ApiError of a non-200 answer
StatusErrorMessage(status, text) == <<"API request failed: ", StatusStr(status), ", ", text>>

\* _make_request, line 96
NetworkErrorMessage(err) == <<"Network error during API request: ", err>>

\* a failure that also forgets the bearer token
Raise_DropToken(e, m) ==
    /\ api_result' = Raised(e, m)
    /\ api_pc' = "idle"
    /\ bearer_token' = None
    /\ UNCHANGED <<session, api_reqs, pairing_token, auth_ok, auth_token>>

\* the call ends by raising; authenticate's handler (lines 19-21) logs and re-raises
Raise(e, m) ==
    /\ api_result' = Raised(e, m)
    /\ api_pc' = "idle"
    /\ UNCHANGED <<bearer_token, session, api_reqs, pairing_token, auth_ok, auth_token>>

\* what follows _make_request returning the document `json`
Continue(json) ==
    CASE api_pc = "pairing" ->
           IF "pairingToken" \in DOMAIN json
           THEN \* line 18: _request_bearer_token(pairing_token); the session is still open
                /\ pairing_token' = json["pairingToken"]
                /\ api_reqs' = Append(api_reqs,
                                      [method |-> "POST", url |-> BearerUrl,
                                       headers |-> RequestHeaders(Given(FormHeaders), FALSE),
                                       data |-> Given(BearerData(json["pairingToken"])),
                                       json |-> Absent])
                /\ api_pc' = "bearer"
                /\ UNCHANGED <<bearer_token, session, api_result, auth_ok, auth_token>>
           ELSE Raise("KeyError", <<"pairingToken">>)
      [] api_pc = "bearer" ->
           IF "access_token" \in DOMAIN json
           THEN /\ bearer_token' = json["access_token"]
                /\ auth_ok' = TRUE
                /\ auth_token' = json["access_token"]
                /\ api_result' = Returned(None)
                /\ api_pc' = "idle"
                /\ UNCHANGED <<session, api_reqs, pairing_token>>
           ELSE Raise("KeyError", <<"access_token">>)
      [] api_pc = "devices" ->
           /\ api_result' = Returned(ParseDevices(json))
           /\ api_pc' = "idle"
           /\ UNCHANGED <<bearer_token, session, api_reqs, pairing_token, auth_ok, auth_token>>
      [] api_pc \in {"status", "command"} ->
           /\ api_result' = Returned(json)
           /\ api_pc' = "idle"
           /\ UNCHANGED <<bearer_token, session, api_reqs, pairing_token, auth_ok, auth_token>>

\* _make_request, lines 87-89: the backend answers 200 with a JSON document
Response200(json) ==
    /\ api_pc # "idle"
    /\ api_resps' = Append(api_resps, [kind |-> "status", status |-> 200, body |-> json])
    /\ Continue(json)
    /\ UNCHANGED <<api_op, api_args, closes, cl_vars, neo_vars, sn_vars, view_vars>>

\* _make_request, lines 90-93: the backend answers with another status
ResponseNon200(status, text) ==
    /\ api_pc # "idle"
    /\ api_resps' = Append(api_resps, [kind |-> "status", status |-> status, body |-> text])
    /\ Raise("ApiError", StatusErrorMessage(status, text))
    /\ UNCHANGED <<api_op, api_args, closes, cl_vars, neo_vars, sn_vars, view_vars>>

\* a client that sends the request once more after the first client error
ResponseClientError_Retry(err) ==
    /\ api_pc # "idle"
    /\ api_resps' = Append(api_resps, [kind |-> "client_error", status |-> 0, body |-> err])
    /\ IF api_resps = <<>>
       THEN /\ api_reqs' = Append(api_reqs, api_reqs[Len(api_reqs)])
            /\ UNCHANGED <<bearer_token, session, api_pc, pairing_token, api_result,
                           auth_ok, auth_token>>
       ELSE Raise("ApiError", NetworkErrorMessage(err))
    /\ UNCHANGED <<api_op, api_args, closes, cl_vars, neo_vars, sn_vars, view_vars>>

\* _make_request, lines 94-96: the request fails with an aiohttp.ClientError
ResponseClientError(err) ==
    /\ api_pc # "idle"
    /\ api_resps' = Append(api_resps, [kind |-> "client_error", status |-> 0, body |-> err])
    /\ Raise("ApiError", NetworkErrorMessage(err))
    /\ UNCHANGED <<api_op, api_args, closes, cl_vars, neo_vars, sn_vars, view_vars>>

-----------------------------------------------------------------------------
(* The zone climate entity, custom_components/actron/climate.py *)

\* homeassistant.components.climate.const: HVACMode, PRESET_*; homeassistant.const
HVACMode_OFF == "off"
HVACMode_AUTO == "auto"
HVACMode_COOL == "cool"
HVACMode_HEAT == "heat"
HVACMode_FAN_ONLY == "fan_only"
PRESET_AWAY == "away"
PRESET_NONE == "none"
ATTR_TEMPERATURE == "temperature"

\* HVAC_MODES, lines 16-22, in the order the dict holds its items
HVAC_MODES ==
    << <<"OFF", HVACMode_OFF>>, <<"AUTO", HVACMode_AUTO>>, <<"COOL", HVACMode_COOL>>,
       <<"HEAT", HVACMode_HEAT>>, <<"FAN", HVACMode_FAN_ONLY>> >>

\* FAN_MODES, line 24
FAN_MODES == <<"AUTO", "LOW", "MEDIUM", "HIGH">>

\* HVAC_MODES.get(k, default)
HvacModesGet(k, default) ==
    IF \E i \in 1..Len(HVAC_MODES) : HVAC_MODES[i][1] = k
    THEN HVAC_MODES[CHOOSE i \in 1..Len(HVAC_MODES) : HVAC_MODES[i][1] = k][2]
    ELSE default

\* line 102: next(k for k, v in HVAC_MODES.items() if v == hvac_mode)
VendorMode(hvac_mode) ==
    LET hits == {i \in 1..Len(HVAC_MODES) : HVAC_MODES[i][2] = hvac_mode}
    IN  HVAC_MODES[CHOOSE i \in hits : \A j \in hits : i <= j][1]

\* _attr_hvac_modes, line 42: list(HVAC_MODES.values())
OfferedHvacModes == {HVAC_MODES[i][2] : i \in 1..Len(HVAC_MODES)}

ZoneId == "zone1"
DeviceId == "S1"
Temperatures == {20, 24}
VendorModes == {"OFF", "AUTO", "COOL", "HEAT", "FAN", "DRY"}   \* DRY: outside HVAC_MODES
\* setpoints are values the entity passes on as they are
CoolSetpoints == {"24.0", "25.5"}
HeatSetpoints == {"19.0"}
Snapshots ==
    [is_on : BOOLEAN, mode : VendorModes,
     setpoint_cool : CoolSetpoints, setpoint_heat : HeatSetpoints]
\* what a failing await raises
Exceptions == {"AuthenticationError", "ApiError", "TimeoutError"}
\* the keyword arguments of async_set_temperature
Kwargs == {EmptyDict} \cup {ATTR_TEMPERATURE :> t : t \in Temperatures}

ClimateInit ==
    /\ coord_data \in Snapshots
    /\ cl_pc = "idle"
    /\ cl_op = None
    /\ cl_arg = None
    /\ cl_prev = [op |-> None, arg |-> None, trace |-> <<>>, send_exc |-> None]
    /\ cl_trace = <<>>
    /\ cl_log = <<>>
    /\ cl_send_exc = None
    /\ cl_result = [kind |-> "none"]

\* an hvac_mode that maps main.mode without looking at main.is_on
HvacModeOf_IgnoresIsOn(data) == HvacModesGet(data.mode, HVACMode_OFF)

\* hvac_mode, lines 64-68, read off the snapshot `data`
HvacModeOf(data) ==
    IF ~data.is_on THEN HVACMode_OFF
    ELSE HvacModesGet(data.mode, HVACMode_OFF)

hvac_mode == HvacModeOf(coord_data)

\* target_temperature, lines 56-62
target_temperature ==
    IF hvac_mode = HVACMode_COOL THEN coord_data.setpoint_cool
    ELSE IF hvac_mode = HVACMode_HEAT THEN coord_data.setpoint_heat
    ELSE None

SendEvent(command) == [ev |-> "send_command", device |-> DeviceId, command |-> command]
RefreshEvent == [ev |-> "request_refresh", device |-> DeviceId, command |-> EmptyDict]

ClBegin(op, arg) ==
    /\ cl_pc = "idle"
    /\ cl_op' = op
    /\ cl_arg' = arg
    /\ cl_prev' = [op |-> cl_op, arg |-> cl_arg, trace |-> cl_trace, send_exc |-> cl_send_exc]
    /\ cl_log' = <<>>
    /\ cl_send_exc' = None
    /\ cl_result' = Pending
    /\ UNCHANGED <<coord_data, api_vars, neo_vars, sn_vars, view_vars>>

\* the refresh requested ahead of the command write
AwaitSend_RefreshFirst(command) ==
    /\ cl_trace' = <<RefreshEvent, SendEvent(command)>>
    /\ cl_pc' = "send"

\* the call awaits coordinator.api.send_command(device_id, command)
AwaitSend(command) ==
    /\ cl_trace' = <<SendEvent(command)>>
    /\ cl_pc' = "send"

\* the call awaits coordinator.async_request_refresh()
AwaitRefresh ==
    /\ cl_trace' = Append(cl_trace, RefreshEvent)
    /\ cl_pc' = "refresh"

CoolSetpoint(zone_id) == "RemoteZoneInfo[" \o zone_id \o "].TemperatureSetpoint_Cool_oC"
HeatSetpoint(zone_id) == "RemoteZoneInfo[" \o zone_id \o "].TemperatureSetpoint_Heat_oC"

\* async_set_temperature(**kwargs), lines 78-90, up to its first await
async_set_temperature(kwargs) ==
    /\ ClBegin("async_set_temperature", kwargs)
    /\ IF ATTR_TEMPERATURE \in DOMAIN kwargs /\ hvac_mode = HVACMode_COOL
       THEN AwaitSend(CoolSetpoint(ZoneId) :> kwargs[ATTR_TEMPERATURE])
       ELSE IF ATTR_TEMPERATURE \in DOMAIN kwargs /\ hvac_mode = HVACMode_HEAT
       THEN AwaitSend(HeatSetpoint(ZoneId) :> kwargs[ATTR_TEMPERATURE])
       ELSE /\ cl_trace' = <<RefreshEvent>>
            /\ cl_pc' = "refresh"

\* a command that carries the host's mode string instead of the vendor's
HvacModeCommand_HostString(mode) ==
    IF mode = HVACMode_OFF
    THEN "UserAirconSettings.isOn" :> FALSE
    ELSE ("UserAirconSettings.isOn" :> TRUE)
           @@ ("UserAirconSettings.Mode" :> mode)

\* lines 97-103: the command of async_set_hvac_mode
HvacModeCommand(mode) ==
    IF mode = HVACMode_OFF
    THEN "UserAirconSettings.isOn" :> FALSE
    ELSE ("UserAirconSettings.isOn" :> TRUE)
           @@ ("UserAirconSettings.Mode" :> VendorMode(mode))

\* async_set_hvac_mode(hvac_mode), lines 95-104, up to its first await
async_set_hvac_mode(mode) ==
    /\ ClBegin("async_set_hvac_mode", mode)
    /\ AwaitSend(HvacModeCommand(mode))

\* async_set_fan_mode(fan_mode), lines 109-112, up to its first await
async_set_fan_mode(fan_mode) ==
    /\ ClBegin("async_set_fan_mode", fan_mode)
    /\ AwaitSend("UserAirconSettings.FanMode" :> fan_mode)

\* coordinator.set_away_mode(away): the mapping it builds
AwayModeCommand(away) == "UserAirconSettings.AwayMode" :> away

\* coordinator.set_away_mode(away), up to the await of its command write
set_away_mode(away) ==
    /\ cl_trace' = <<[ev |-> "set_away_mode", away |-> away],
                     SendEvent(AwayModeCommand(away))>>
    /\ cl_pc' = "away_send"

\* a preset handler that turns away mode on whatever the preset
async_set_preset_mode_AlwaysAway(preset_mode) ==
    /\ ClBegin("async_set_preset_mode", preset_mode)
    /\ set_away_mode(TRUE)

\* async_set_preset_mode(preset_mode), lines 117-122, up to the first await of
\* coordinator.set_away_mode
async_set_preset_mode(preset_mode) ==
    /\ ClBegin("async_set_preset_mode", preset_mode)
    /\ IF preset_mode = PRESET_AWAY
       THEN set_away_mode(TRUE)
       ELSE set_away_mode(FALSE)

\* the handlers `except Exception as err: _LOGGER.error(...); raise`
ErrorLog(op) ==
    CASE op = "async_set_temperature" -> "Failed to set temperature: "
      [] op = "async_set_hvac_mode" -> "Failed to set HVAC mode: "
      [] op = "async_set_fan_mode" -> "Failed to set fan mode: "
      [] op = "async_set_preset_mode" -> "Failed to set preset mode: "

\* a handler that logs, requests the refresh all the same, and re-raises
LogAndRaise_Refresh(exc) ==
    /\ cl_log' = Append(cl_log, ErrorLog(cl_op) \o exc)
    /\ cl_result' = Raised(exc, <<>>)
    /\ cl_pc' = "idle"
    /\ cl_trace' = Append(cl_trace, RefreshEvent)

LogAndRaise(exc) ==
    /\ cl_log' = Append(cl_log, ErrorLog(cl_op) \o exc)
    /\ cl_result' = Raised(exc, <<>>)
    /\ cl_pc' = "idle"
    /\ UNCHANGED cl_trace

\* the command write returns: the next statement requests the refresh
SendReturns ==
    /\ cl_pc = "send"
    /\ AwaitRefresh
    /\ UNCHANGED <<coord_data, cl_op, cl_arg, cl_prev, cl_log, cl_send_exc, cl_result, api_vars, neo_vars, sn_vars, view_vars>>

\* the command write raises
SendRaises(exc) ==
    /\ cl_pc = "send"
    /\ cl_send_exc' = exc
    /\ LogAndRaise(exc)
    /\ UNCHANGED <<coord_data, cl_op, cl_arg, cl_prev, api_vars, neo_vars, sn_vars, view_vars>>

\* coordinator.set_away_mode: its send_command returned, it requests the refresh
AwaySendReturns ==
    /\ cl_pc = "away_send"
    /\ cl_trace' = Append(cl_trace, RefreshEvent)
    /\ cl_pc' = "away_refresh"
    /\ UNCHANGED <<coord_data, cl_op, cl_arg, cl_prev, cl_log, cl_send_exc, cl_result, api_vars, neo_vars, sn_vars, view_vars>>

\* coordinator.set_away_mode: its send_command raised
AwaySendRaises(exc) ==
    /\ cl_pc = "away_send"
    /\ cl_send_exc' = exc
    /\ LogAndRaise(exc)
    /\ UNCHANGED <<coord_data, cl_op, cl_arg, cl_prev, api_vars, neo_vars, sn_vars, view_vars>>

\* the refresh returns with the coordinator holding a new snapshot
RefreshReturns(snapshot) ==
    /\ cl_pc \in {"refresh", "away_refresh"}
    /\ coord_data' = snapshot
    /\ cl_result' = Returned(None)
    /\ cl_pc' = "idle"
    /\ UNCHANGED <<cl_op, cl_arg, cl_prev, cl_trace, cl_log, cl_send_exc, api_vars, neo_vars, sn_vars, view_vars>>

\* the refresh raises
RefreshRaises(exc) ==
    /\ cl_pc \in {"refresh", "away_refresh"}
    /\ LogAndRaise(exc)
    /\ UNCHANGED <<coord_data, cl_op, cl_arg, cl_prev, cl_send_exc, api_vars, neo_vars, sn_vars, view_vars>>

-----------------------------------------------------------------------------
(* The system climate entity, custom_components/actron_air_neo/climate.py *)

\* coordinator.data['main']: any of its keys may be missing
NeoKeys == {"is_on", "mode", "temp_setpoint_cool", "temp_setpoint_heat"}
NeoValue(k) ==
    CASE k = "is_on" -> BOOLEAN
      [] k = "mode" -> {HVACMode_OFF, HVACMode_COOL, HVACMode_HEAT, HVACMode_FAN_ONLY, "COOL"}
      [] k = "temp_setpoint_cool" -> {"24.0"}
      [] k = "temp_setpoint_heat" -> {"19.0"}
RECURSIVE NeoDicts(_)
NeoDicts(ks) ==
    IF ks = {} THEN {EmptyDict}
    ELSE LET k == CHOOSE k \in ks : TRUE
             rest == NeoDicts(ks \ {k})
         IN  rest \cup {d @@ (k :> v) : d \in rest, v \in NeoValue(k)}
NeoSnapshots == NeoDicts(NeoKeys)

\* _attr_hvac_modes and _attr_fan_modes, lines 30-31
NeoHvacModes == {HVACMode_OFF, HVACMode_COOL, HVACMode_HEAT, HVACMode_FAN_ONLY}
NeoFanModes == {"LOW", "MEDIUM", "HIGH"}

NeoInit ==
    /\ neo_data \in NeoSnapshots
    /\ neo_pc = "idle"
    /\ neo_op = None
    /\ neo_arg = None
    /\ neo_trace = <<>>
    /\ neo_result = [kind |-> "none"]

\* `not data.get('is_on')`, lines 51 and 57
NeoIsOff(data) == "is_on" \notin DOMAIN data \/ ~data["is_on"]

\* hvac_mode, lines 49-53, read off the snapshot `data`
NeoHvacModeOf(data) ==
    IF NeoIsOff(data) THEN HVACMode_OFF
    ELSE Get(data, "mode", HVACMode_OFF)

Neo_hvac_mode == NeoHvacModeOf(neo_data)

\* target_temperature, lines 41-47
Neo_target_temperature ==
    IF Neo_hvac_mode = HVACMode_COOL THEN Get(neo_data, "temp_setpoint_cool", None)
    ELSE IF Neo_hvac_mode = HVACMode_HEAT THEN Get(neo_data, "temp_setpoint_heat", None)
    ELSE None

NeoBegin(op, arg) ==
    /\ neo_pc = "idle"
    /\ neo_op' = op
    /\ neo_arg' = arg
    /\ UNCHANGED <<neo_data, api_vars, cl_vars, sn_vars, view_vars>>

\* the call awaits a method of the coordinator
NeoAwait(event) ==
    /\ neo_trace' = <<event>>
    /\ neo_pc' = "coordinator"
    /\ neo_result' = Pending

\* async_set_temperature(**kwargs), lines 71-76, up to its await
Neo_async_set_temperature(kwargs) ==
    /\ NeoBegin("async_set_temperature", kwargs)
    /\ IF ATTR_TEMPERATURE \notin DOMAIN kwargs
       THEN /\ neo_trace' = <<>>
            /\ neo_pc' = "idle"
            /\ neo_result' = Returned(None)
       ELSE NeoAwait([ev |-> "set_temperature",
                      temperature |-> kwargs[ATTR_TEMPERATURE],
                      is_cooling |-> (Neo_hvac_mode = HVACMode_COOL)])

\* async_set_hvac_mode(hvac_mode), lines 78-79, up to its await
Neo_async_set_hvac_mode(mode) ==
    /\ NeoBegin("async_set_hvac_mode", mode)
    /\ NeoAwait([ev |-> "set_hvac_mode", mode |-> mode])

\* async_set_fan_mode(fan_mode), lines 81-82, up to its await
Neo_async_set_fan_mode(fan_mode) ==
    /\ NeoBegin("async_set_fan_mode", fan_mode)
    /\ NeoAwait([ev |-> "set_fan_mode", fan_mode |-> fan_mode])

\* the coordinator method returns, the coordinator holding the snapshot of its refresh
NeoCoordinatorReturns(snapshot) ==
    /\ neo_pc = "coordinator"
    /\ neo_data' = snapshot
    /\ neo_result' = Returned(None)
    /\ neo_pc' = "idle"
    /\ UNCHANGED <<neo_op, neo_arg, neo_trace, api_vars, cl_vars, sn_vars, view_vars>>

\* the coordinator method raises; the entity has no handler
NeoCoordinatorRaises(exc) ==
    /\ neo_pc = "coordinator"
    /\ neo_result' = Raised(exc, <<>>)
    /\ neo_pc' = "idle"
    /\ UNCHANGED <<neo_data, neo_op, neo_arg, neo_trace, api_vars, cl_vars, sn_vars, view_vars>>

-----------------------------------------------------------------------------
(* The host reads the entities' properties *)

Unread == [hvac_mode |-> None, target_temperature |-> None]

ViewInit ==
    /\ cl_view = Unread
    /\ neo_view = Unread

\* the properties hvac_mode and target_temperature of the zone entity, evaluated on the
\* coordinator's snapshot
ReadZoneEntity ==
    /\ cl_pc = "idle"
    /\ cl_view' = [hvac_mode |-> hvac_mode, target_temperature |-> target_temperature]
    /\ UNCHANGED <<neo_view, api_vars, cl_vars, neo_vars, sn_vars>>

\* the same two properties of the system entity
ReadSystemEntity ==
    /\ neo_pc = "idle"
    /\ neo_view' = [hvac_mode |-> Neo_hvac_mode,
                    target_temperature |-> Neo_target_temperature]
    /\ UNCHANGED <<cl_view, api_vars, cl_vars, neo_vars, sn_vars>>

-----------------------------------------------------------------------------
(* The zone sensors, custom_components/actron/sensor.py *)

\* the three sensor classes and the zone field each one reads (lines 50, 82, 114)
SensorKinds == {"temperature", "humidity", "battery"}
SensorField(kind) ==
    CASE kind = "temperature" -> "current_temperature"
      [] kind = "humidity" -> "humidity"
      [] kind = "battery" -> "battery_level"

MaxZones == 2
SensorZoneId == "zone1"
ZoneIds == {"zone1", "zone2"}
ZoneKeys == {"zoneId", "current_temperature", "humidity", "battery_level"}
\* readings are values the sensor passes on as they are
ZoneValue(k) ==
    CASE k = "zoneId" -> ZoneIds
      [] k = "current_temperature" -> {"21.5", "23.0"}
      [] k = "humidity" -> {"40"}
      [] k = "battery_level" -> {"87"}
RECURSIVE ZoneDicts(_)
ZoneDicts(ks) ==
    IF ks = {} THEN {EmptyDict}
    ELSE LET k == CHOOSE k \in ks : TRUE
             rest == ZoneDicts(ks \ {k})
         IN  rest \cup {d @@ (k :> v) : d \in rest, v \in ZoneValue(k)}
ZoneDocs == ZoneDicts(ZoneKeys)
\* what get_status() returns when it returns a mapping: {} or {"zones": [...]}
ZoneStatuses == {EmptyDict} \cup {"zones" :> zones : zones \in SeqUpTo(ZoneDocs, MaxZones)}

\* __init__, lines 25-30: _state = None
SensorInit ==
    /\ sn_state = [kind \in SensorKinds |-> None]
    /\ sn_pc = "idle"
    /\ sn_kind = None
    /\ sn_before = None
    /\ sn_fetch = None
    /\ sn_log = <<>>
    /\ sn_result = [kind |-> "none"]

\* async_update(), lines 42-45, up to the await of self._api.get_status()
async_update(kind) ==
    /\ sn_pc = "idle"
    /\ sn_pc' = "get_status"
    /\ sn_kind' = kind
    /\ sn_before' = sn_state[kind]
    /\ sn_fetch' = "pending"
    /\ sn_log' = <<>>
    /\ sn_result' = Pending
    /\ UNCHANGED <<sn_state, api_vars, cl_vars, neo_vars, view_vars>>

\* lines 47-51: the reading of the first zone whose zoneId is the sensor's, if any
RECURSIVE ZoneReading(_, _, _)
ZoneReading(zones, kind, state) ==
    IF zones = <<>> THEN state
    ELSE IF Get(Head(zones), "zoneId", None) = SensorZoneId
         THEN Get(Head(zones), SensorField(kind), None)
         ELSE ZoneReading(Tail(zones), kind, state)

\* get_status() returns the mapping `status`, lines 46-51
GetStatusReturns(status) ==
    /\ sn_pc = "get_status"
    /\ sn_state' = [sn_state EXCEPT ![sn_kind] =
                        ZoneReading(Get(status, "zones", <<>>), sn_kind, @)]
    /\ sn_fetch' = "returned"
    /\ sn_result' = Returned(None)
    /\ sn_pc' = "idle"
    /\ UNCHANGED <<sn_kind, sn_before, sn_log, api_vars, cl_vars, neo_vars, view_vars>>

\* get_status() returns None: `if status:` is false, line 46
GetStatusReturnsNone ==
    /\ sn_pc = "get_status"
    /\ sn_fetch' = "returned"
    /\ sn_result' = Returned(None)
    /\ sn_pc' = "idle"
    /\ UNCHANGED <<sn_state, sn_kind, sn_before, sn_log, api_vars, cl_vars, neo_vars, view_vars>>

\* lines 52, 84, 116: the message of the handler's _LOGGER.error
SensorErrorLog(kind, exc) ==
    "Failed to update " \o kind \o " sensor for zone " \o SensorZoneId \o ": " \o exc

\* a handler that logs and forgets the reading
SwallowError_Reset(exc) ==
    /\ sn_log' = Append(sn_log, SensorErrorLog(sn_kind, exc))
    /\ sn_state' = [sn_state EXCEPT ![sn_kind] = None]
    /\ sn_result' = Returned(None)

\* `except Exception as e: _LOGGER.error(...)`, lines 51-52: the method then returns
SwallowError(exc) ==
    /\ sn_log' = Append(sn_log, SensorErrorLog(sn_kind, exc))
    /\ sn_result' = Returned(None)
    /\ UNCHANGED sn_state

\* get_status() raises
GetStatusRaises(exc) ==
    /\ sn_pc = "get_status"
    /\ sn_fetch' = "raised"
    /\ SwallowError(exc)
    /\ sn_pc' = "idle"
    /\ UNCHANGED <<sn_kind, sn_before, api_vars, cl_vars, neo_vars, view_vars>>

\* get_status() returns a true value that is no mapping (a list): status.get, line 47,
\* raises AttributeError inside the try
GetStatusReturnsNoMapping ==
    /\ sn_pc = "get_status"
    /\ sn_fetch' = "returned"
    /\ SwallowError("AttributeError")
    /\ sn_pc' = "idle"
    /\ UNCHANGED <<sn_kind, sn_before, api_vars, cl_vars, neo_vars, view_vars>>

-----------------------------------------------------------------------------

vars == <<api_vars, cl_vars, neo_vars, sn_vars, view_vars>>

Init == ApiInit /\ ClimateInit /\ NeoInit /\ SensorInit /\ ViewInit

IdleNeoSnapshot == EmptyDict

\* the client alone, beside an entity that stays idle
IdleSnapshot ==
    [is_on |-> FALSE, mode |-> "OFF", setpoint_cool |-> "24.0", setpoint_heat |-> "19.0"]
InitApi == Init /\ coord_data = IdleSnapshot /\ neo_data = IdleNeoSnapshot

NextApi ==
    \/ authenticate
    \/ get_devices
    \/ \E serial \in Serials : get_ac_status(serial)
    \/ \E serial \in Serials, command \in Commands : send_command(serial, command)
    \/ close
    \/ \E json \in Json200(api_pc) : Response200(json)
    \/ \E status \in ErrorStatuses, text \in BodyTexts : ResponseNon200(status, text)
    \/ \E err \in ClientErrors : ResponseClientError(err)

NextClimate ==
    \/ \E kwargs \in Kwargs : async_set_temperature(kwargs)
    \/ \E mode \in OfferedHvacModes : async_set_hvac_mode(mode)
    \/ \E i \in 1..Len(FAN_MODES) : async_set_fan_mode(FAN_MODES[i])
    \/ \E preset \in {PRESET_AWAY, PRESET_NONE} : async_set_preset_mode(preset)
    \/ SendReturns
    \/ \E exc \in Exceptions : SendRaises(exc)
    \/ AwaySendReturns
    \/ \E exc \in Exceptions : AwaySendRaises(exc)
    \/ \E snapshot \in Snapshots : RefreshReturns(snapshot)
    \/ \E exc \in Exceptions : RefreshRaises(exc)

SpecApi == InitApi /\ [][NextApi]_vars

\* the zone entity alone
InitClimate == Init /\ neo_data = IdleNeoSnapshot

SpecClimate == InitClimate /\ [][NextClimate]_vars

NextNeo ==
    \/ \E kwargs \in Kwargs : Neo_async_set_temperature(kwargs)
    \/ \E mode \in NeoHvacModes : Neo_async_set_hvac_mode(mode)
    \/ \E fan_mode \in NeoFanModes : Neo_async_set_fan_mode(fan_mode)
    \/ \E snapshot \in NeoSnapshots : NeoCoordinatorReturns(snapshot)
    \/ \E exc \in Exceptions : NeoCoordinatorRaises(exc)

\* the system entity alone
InitNeo == Init /\ coord_data = IdleSnapshot

SpecNeo == InitNeo /\ [][NextNeo]_vars

NextSensor ==
    \/ \E kind \in SensorKinds : async_update(kind)
    \/ \E status \in ZoneStatuses : GetStatusReturns(status)
    \/ GetStatusReturnsNone
    \/ GetStatusReturnsNoMapping
    \/ \E exc \in Exceptions : GetStatusRaises(exc)

\* the zone sensors alone
InitSensor == Init /\ coord_data = IdleSnapshot /\ neo_data = IdleNeoSnapshot

SpecSensor == InitSensor /\ [][NextSensor]_vars

NextViews ==
    \/ ReadZoneEntity
    \/ ReadSystemEntity

\* the properties of both entities, read on every pair of snapshots
SpecViews == Init /\ [][NextViews]_vars

-----------------------------------------------------------------------------
(* Properties of ActronApi, checked under SpecApi *)

AuthenticatedOps == {"get_devices", "get_ac_status", "send_command"}
TokenExchangeUrls == {PairingUrl, BearerUrl}

Last(seq) == seq[Len(seq)]
Contains(msg, part) == \E i \in 1..Len(msg) : msg[i] = part

\* the answer r is a failure of the request: a status other than 200, or a client error
FailedResponse(r) == r.kind = "client_error" \/ r.status # 200

\* C1: while no bearer token is held, get_devices, get_ac_status and send_command
\* raise AuthenticationError and issue no HTTP request on the session.
C1_FailFast ==
    (Falsy(bearer_token) /\ api_op \in AuthenticatedOps) =>
        /\ api_pc = "idle"
        /\ api_result.kind = "raise"
        /\ api_result.exc = "AuthenticationError"
        /\ api_reqs = <<>>
        /\ api_resps = <<>>

C1_Witness ==
    /\ ~auth_ok
    /\ api_op = "send_command"
    /\ api_result.kind = "raise"
    /\ api_result.exc = "AuthenticationError"

\* C2: a request carries an Authorization header only after a successful authenticate(),
\* and the header is then "Bearer <t>" with t the token the most recent successful
\* authenticate() stored; the two token-exchange requests never carry the header, every
\* other request always does.
C2_BearerHeader ==
    \A i \in 1..Len(api_reqs) :
        LET r == api_reqs[i]
        IN  /\ "Authorization" \in DOMAIN r.headers =>
                  /\ auth_ok
                  /\ r.headers["Authorization"] = "Bearer " \o auth_token
            /\ r.url \in TokenExchangeUrls => "Authorization" \notin DOMAIN r.headers
            /\ r.url \notin TokenExchangeUrls => "Authorization" \in DOMAIN r.headers

C2_Witness ==
    /\ api_op = "get_ac_status"
    /\ Len(api_reqs) = 1
    /\ auth_token = "tokB"
    /\ api_reqs[1].headers["Authorization"] = "Bearer tokB"

\* a step of authenticate() failed: the last answer is a failure, or a 200 answer
\* without the token field of its step
AuthStepFailed ==
    /\ api_op = "authenticate"
    /\ api_pc = "idle"
    /\ api_resps # <<>>
    /\ LET r == Last(api_resps)
       IN  \/ FailedResponse(r)
           \/ /\ Len(api_resps) = 1
              /\ "pairingToken" \notin DOMAIN r.body
           \/ /\ Len(api_resps) = 2
              /\ "access_token" \notin DOMAIN r.body

\* C3: authenticate() raises AuthenticationError whenever one of its two steps fails,
\* and does not send the failed step's request again.
C3_AuthenticationError ==
    AuthStepFailed =>
        /\ api_result.kind = "raise"
        /\ api_result.exc = "AuthenticationError"
        /\ Len(api_reqs) = Len(api_resps)

\* C4: within one authenticate() the pairing-token request goes first; the bearer-token
\* request is sent only after a pairing answer that succeeded, carries exactly the
\* pairing token of that answer, and is sent at most once; no bearer-token request
\* follows a failed pairing request.
C4_ExchangeOrder ==
    api_op = "authenticate" =>
        /\ Len(api_reqs) <= 2
        /\ Len(api_reqs) >= 1 => api_reqs[1].url = PairingUrl
        /\ Cardinality({i \in 1..Len(api_reqs) : api_reqs[i].url = BearerUrl}) <= 1
        /\ Len(api_reqs) = 2 =>
              /\ api_reqs[2].url = BearerUrl
              /\ api_resps # <<>>
              /\ api_resps[1].status = 200
              /\ "pairingToken" \in DOMAIN api_resps[1].body
              /\ The(api_reqs[2].data)["refresh_token"] = api_resps[1].body["pairingToken"]
        /\ (Len(api_resps) = 1 /\ AuthStepFailed) => Len(api_reqs) = 1

C4_Witness ==
    /\ api_op = "authenticate"
    /\ Len(api_reqs) = 2
    /\ api_resps[1].body["pairingToken"] = "pairB"
    /\ The(api_reqs[2].data)["refresh_token"] = "pairB"

\* C5: once authenticate() has returned without error, a get_devices, get_ac_status or
\* send_command fails only when the backend answers it other than with status 200
\* (with the backend answering 200 the call succeeds), whatever access_token the
\* token exchange answered with.  Stated for a session that is still open.
C5_SucceedsOn200 ==
    (auth_ok /\ session # None /\ api_op \in AuthenticatedOps /\ api_pc = "idle") =>
        (api_result.kind = "raise" =>
            /\ api_resps # <<>>
            /\ FailedResponse(Last(api_resps)))

\* C6: an answer with a status other than 200 raises ApiError whose message holds the
\* status code and the body text, a client error raises ApiError, and neither returns
\* a result to the caller.
C6_ApiError ==
    (api_resps # <<>> /\ FailedResponse(Last(api_resps))) =>
        /\ api_pc = "idle"
        /\ api_result.kind = "raise"
        /\ api_result.exc = "ApiError"
        /\ Last(api_resps).kind = "status" =>
              /\ Contains(api_result.msg, StatusStr(Last(api_resps).status))
              /\ Contains(api_result.msg, Last(api_resps).body)

C6_Witness ==
    /\ api_op = "send_command"
    /\ api_resps # <<>>
    /\ Last(api_resps).status = 500
    /\ Last(api_resps).body = "denied"
    /\ api_result.kind = "raise"
\* the ac-system list of the answer get_devices received, empty when absent
AnsweredSystems ==
    LET doc == Last(api_resps).body
    IN  IF "_embedded" \in DOMAIN doc /\ "ac-system" \in DOMAIN doc["_embedded"]
        THEN doc["_embedded"]["ac-system"]
        ELSE <<>>

GetDevicesReturned ==
    /\ api_op = "get_devices"
    /\ api_pc = "idle"
    /\ api_result.kind = "return"

\* the descriptors are those of `systems`, in order, a missing description reported
\* as `noName`
Descriptors(devices, systems, noName) ==
    /\ Len(devices) = Len(systems)
    /\ \A i \in 1..Len(systems) :
          /\ devices[i]["serial"] =
                IF "serial" \in DOMAIN systems[i] THEN systems[i]["serial"] ELSE "Unknown"
          /\ devices[i]["name"] =
                IF "description" \in DOMAIN systems[i] THEN systems[i]["description"]
                ELSE noName
          /\ devices[i]["type"] =
                IF "type" \in DOMAIN systems[i] THEN systems[i]["type"] ELSE "Unknown"

\* C7 as claimed: get_devices() returns one descriptor per entry of _embedded.ac-system,
\* in order, none when the list is empty or absent, and every missing field (serial,
\* description, type) is reported as "Unknown".
C7_AllUnknown ==
    GetDevicesReturned => Descriptors(api_result.value, AnsweredSystems, "Unknown")

\* C7 as amended: the same, but a missing description is reported as "Unknown Device";
\* only a missing serial or type is reported as "Unknown".
C7_Descriptors ==
    GetDevicesReturned => Descriptors(api_result.value, AnsweredSystems, "Unknown Device")

C7_Witness ==
    /\ GetDevicesReturned
    /\ Len(AnsweredSystems) = 2
    /\ DOMAIN AnsweredSystems[1] = {"serial", "type"}
    /\ DOMAIN AnsweredSystems[2] = {"serial", "description"}
    /\ AnsweredSystems[1]["serial"] # AnsweredSystems[2]["serial"]
    /\ api_result.value[1]["name"] = "Unknown Device"
    /\ api_result.value[2]["type"] = "Unknown"

\* send_command runs with a bearer token held and the session open
SendCommandIssued ==
    /\ api_op = "send_command"
    /\ ~Falsy(bearer_token)
    /\ session # None

\* the call issued exactly one request, a POST whose JSON body is {"command": M} with
\* M's keys the supplied ones and "type", "type" bound to the tag, and the supplied
\* value at each supplied key in `kept`
EnvelopePosted(kept) ==
    /\ Len(api_reqs) = 1
    /\ api_reqs[1].method = "POST"
    /\ api_reqs[1].url = CommandUrl(api_args.serial)
    /\ api_reqs[1].json # Absent
    /\ LET body == The(api_reqs[1].json)
       IN  /\ DOMAIN body = {"command"}
           /\ DOMAIN body["command"] = DOMAIN api_args.command \cup {"type"}
           /\ body["command"]["type"] = CMD_SET_SETTINGS
           /\ \A k \in kept : body["command"][k] = api_args.command[k]

\* C8 as claimed: the one POST of send_command carries {"command": M}, M holding every
\* supplied field path with its supplied value plus "type" bound to the tag and no
\* other key, also when the supplied mapping has a key "type".  Stated for a call with
\* a bearer token held and the session open.
C8_EverySuppliedValue ==
    SendCommandIssued => EnvelopePosted(DOMAIN api_args.command)

\* C8 as amended: with a bearer token held and the session open, the one POST carries
\* {"command": M}, M holding every supplied field path other than "type" with its
\* supplied value, "type" bound to the tag (a supplied "type" is overwritten) and no
\* other key.
C8_Envelope ==
    SendCommandIssued => EnvelopePosted(DOMAIN api_args.command \ {"type"})

C8_Witness ==
    /\ SendCommandIssued
    /\ DOMAIN api_args.command = {"UserAirconSettings.isOn", "type"}
    /\ api_args.command["type"] # CMD_SET_SETTINGS
    /\ Len(api_reqs) = 1
    /\ The(api_reqs[1].json)["command"]["UserAirconSettings.isOn"] = TRUE
\* C15: the client holds one session, which every request uses until close(); close()
\* closes it and drops the reference, a second close() closes nothing and raises nothing,
\* and no operation after close() issues a request on the released session.
C15_SessionReleased ==
    /\ session \in {"open", None}
    /\ session = "open" <=> closes = 0
    /\ session = None <=> closes = 1
    /\ api_op = "close" => (session = None /\ api_result = Returned(None))
    /\ session = None => (api_reqs = <<>> /\ api_resps = <<>> /\ api_pc = "idle")
    /\ api_reqs # <<>> => session = "open"

\* a call made after close(), the client holding a proper token
C15_Witness ==
    /\ session = None
    /\ closes = 1
    /\ ~Falsy(bearer_token)
    /\ api_op = "send_command"
    /\ api_result.kind = "raise"
    /\ api_reqs = <<>>

\* C16: the stored bearer token changes only as the effect of an authenticate() whose two
\* steps both succeeded; a failed authenticate(), any get_devices, get_ac_status or
\* send_command, and close() leave it unchanged, so a client that holds a token (Ready)
\* never returns to holding none (Unauthenticated).
C16_TokenFrame ==
    [][/\ bearer_token' # bearer_token =>
            /\ api_op = "authenticate"
            /\ api_pc = "bearer"
            /\ api_pc' = "idle"
            /\ api_result' = Returned(None)
       /\ ~Falsy(bearer_token) => ~Falsy(bearer_token')]_vars

\* the part of C16 the code keeps: only an authenticate() that returns changes the token
C16_ChangedByAuthenticateOnly ==
    [][bearer_token' # bearer_token =>
            /\ api_op = "authenticate"
            /\ api_pc = "bearer"
            /\ api_pc' = "idle"
            /\ api_result' = Returned(None)]_vars

\* an authenticated call has been answered 401
Answered401 ==
    /\ api_op \in AuthenticatedOps
    /\ api_resps # <<>>
    /\ Last(api_resps).kind = "status"
    /\ Last(api_resps).status = 401

\* C17: an authenticated call answered 401 raises ApiError, not AuthenticationError; the
\* client issues no pairing or bearer token exchange in response, does not send the
\* request again, and keeps the bearer token it sent.
C17_No401Reauthentication ==
    Answered401 =>
        /\ api_pc = "idle"
        /\ api_result.kind = "raise"
        /\ api_result.exc = "ApiError"
        /\ Len(api_reqs) = 1
        /\ Len(api_resps) = 1
        /\ api_reqs[1].url \notin TokenExchangeUrls
        /\ ~Falsy(bearer_token)
        /\ bearer_token = auth_token
        /\ api_reqs[1].headers["Authorization"] = "Bearer " \o bearer_token

C17_Witness ==
    /\ Answered401
    /\ api_op = "get_ac_status"
    /\ api_result = Raised("ApiError", StatusErrorMessage(401, "denied"))
    /\ bearer_token = "tokA"

\* the URLs of the requests the current call has issued, in order
RequestUrls == [i \in 1..Len(api_reqs) |-> api_reqs[i].url]

\* C18: no retry: a get_devices, get_ac_status or send_command issues at most one HTTP
\* request, an authenticate() at most two (the pairing step, then the bearer step),
\* whether the requests succeed or fail; a failed request ends the call.
C18_NoRetry ==
    /\ api_op \in AuthenticatedOps => Len(api_reqs) <= 1
    /\ api_op = "authenticate" =>
          RequestUrls \in {<<>>, <<PairingUrl>>, <<PairingUrl, BearerUrl>>}
    /\ Len(api_resps) <= Len(api_reqs)
    /\ (api_resps # <<>> /\ FailedResponse(Last(api_resps))) =>
          (api_pc = "idle" /\ Len(api_reqs) = Len(api_resps))

C18_Witness ==
    /\ api_op = "authenticate"
    /\ RequestUrls = <<PairingUrl, BearerUrl>>
    /\ Len(api_resps) = 2
    /\ Last(api_resps).kind = "client_error"
    /\ api_result.kind = "raise"

-----------------------------------------------------------------------------
(* Properties of the zone climate entity, checked under SpecClimate *)

Sends == {i \in 1..Len(cl_trace) : cl_trace[i].ev = "send_command"}
Refreshes == {i \in 1..Len(cl_trace) : cl_trace[i].ev = "request_refresh"}

\* the command write of the current call has returned
SendSucceeded == Sends # {} /\ cl_send_exc = None /\ cl_pc # "send" /\ cl_pc # "away_send"

\* C9: in async_set_hvac_mode, async_set_fan_mode and async_set_temperature the command
\* is sent before the refresh is requested: no refresh request of the call precedes its
\* send_command, and after a successful send the refresh is requested exactly once.
C9_SendBeforeRefresh ==
    cl_op \in {"async_set_hvac_mode", "async_set_fan_mode", "async_set_temperature"} =>
        /\ \A i \in Refreshes, j \in Sends : j < i
        /\ Cardinality(Sends) <= 1
        /\ Cardinality(Refreshes) <= 1
        /\ cl_pc = "send" => Refreshes = {}
        /\ SendSucceeded => Sends = {1} /\ Refreshes = {2}

C9_Witness ==
    /\ cl_op = "async_set_temperature"
    /\ cl_pc = "idle"
    /\ cl_result.kind = "return"
    /\ Sends = {1}
    /\ Refreshes = {2}

\* C10: when the command write raises in async_set_temperature, async_set_hvac_mode,
\* async_set_fan_mode or async_set_preset_mode, the call logs the error, raises that
\* same exception to its caller and requests no coordinator refresh.
C10_WriteErrorPropagates ==
    cl_send_exc # None =>
        /\ cl_pc = "idle"
        /\ cl_result.kind = "raise"
        /\ cl_result.exc = cl_send_exc
        /\ cl_log = <<ErrorLog(cl_op) \o cl_send_exc>>
        /\ Refreshes = {}

C10_Witness ==
    /\ cl_op = "async_set_hvac_mode"
    /\ cl_send_exc = "ApiError"
    /\ cl_result.kind = "raise"
    /\ cl_result.exc = "ApiError"
-----------------------------------------------------------------------------
(* Properties of the two climate entities *)

\* the zone entity runs async_set_temperature with a temperature, its snapshot still
\* the one the call read
ZoneSetsTemperature ==
    /\ cl_op = "async_set_temperature"
    /\ cl_pc # "idle"
    /\ ATTR_TEMPERATURE \in DOMAIN cl_arg

\* the zone entity writes exactly the setpoint field `field`, with the temperature given
ZoneWrites(field) ==
    /\ Sends = {1}
    /\ DOMAIN cl_trace[1].command = {field}
    /\ cl_trace[1].command[field] = cl_arg[ATTR_TEMPERATURE]

\* C11 for the zone entity (actron): cooling writes the cool setpoint field, heating
\* the heat setpoint field, off and fan mode write nothing.
C11_Zone ==
    ZoneSetsTemperature =>
        /\ hvac_mode = HVACMode_COOL => ZoneWrites(CoolSetpoint(ZoneId))
        /\ hvac_mode = HVACMode_HEAT => ZoneWrites(HeatSetpoint(ZoneId))
        /\ hvac_mode \in {HVACMode_OFF, HVACMode_FAN_ONLY} => Sends = {}

C11_ZoneWitness ==
    /\ ZoneSetsTemperature
    /\ hvac_mode = HVACMode_HEAT
    /\ ZoneWrites(HeatSetpoint(ZoneId))

\* the system entity runs async_set_temperature, its snapshot still the one it read
NeoSetsTemperature ==
    /\ neo_op = "async_set_temperature"
    /\ neo_pc # "idle"

NeoSetTemperatureCalls ==
    {i \in 1..Len(neo_trace) : neo_trace[i].ev = "set_temperature"}

\* C11 for the system entity (actron_air_neo): cooling asks the coordinator for the cool
\* setpoint, heating for the heat setpoint, and off and fan mode make no
\* coordinator.set_temperature call.
C11_System ==
    NeoSetsTemperature =>
        /\ Neo_hvac_mode = HVACMode_COOL =>
              NeoSetTemperatureCalls = {1} /\ neo_trace[1].is_cooling
        /\ Neo_hvac_mode = HVACMode_HEAT =>
              NeoSetTemperatureCalls = {1} /\ ~neo_trace[1].is_cooling
        /\ Neo_hvac_mode \in {HVACMode_OFF, HVACMode_FAN_ONLY} =>
              NeoSetTemperatureCalls = {}

\* C11: setting a target temperature writes the cool setpoint field in cooling mode, the
\* heat setpoint field in heating mode, and sends no setpoint write at all (no API
\* command, no coordinator.set_temperature call) when the system is off or in fan mode,
\* in both climate entities.
C11_SetpointByMode == C11_Zone /\ C11_System

\* the preset call `call` (its op, arg, trace, send_exc) asked coordinator.set_away_mode
\* for `away`: the call is first in its trace, the command payload second, and when the
\* command write succeeded the refresh request third
AwayRoundTrip(call, away) ==
    /\ Len(call.trace) >= 2
    /\ call.trace[1] = [ev |-> "set_away_mode", away |-> away]
    /\ call.trace[2] = SendEvent(AwayModeCommand(away))
    /\ \A i \in 3..Len(call.trace) : call.trace[i].ev # "send_command"
    /\ call.send_exc = None => (Len(call.trace) = 3 /\ call.trace[3] = RefreshEvent)
    /\ call.send_exc # None => Len(call.trace) = 2

\* preset AWAY was selected and ran to its end, preset NONE is the next call and its
\* command write is no longer pending
AwayThenNone ==
    /\ cl_prev.op = "async_set_preset_mode" /\ cl_prev.arg = PRESET_AWAY
    /\ cl_op = "async_set_preset_mode" /\ cl_arg = PRESET_NONE
    /\ cl_pc # "away_send"

HvacModeSent == cl_trace[1].command

\* C13: for every offered host mode m, async_set_hvac_mode(m) sends isOn true with the
\* vendor string k such that HVAC_MODES[k] = m (OFF sends only isOn false); a status with
\* is_on true and vendor mode k reads back as m; and hvac_mode is always an offered host
\* mode, a vendor mode outside the vocabulary never passes through unmapped.
C13_ModeVocabulary ==
    /\ hvac_mode \in OfferedHvacModes
    /\ cl_op = "async_set_hvac_mode" =>
          /\ Sends = {1}
          /\ cl_arg \in OfferedHvacModes
          /\ IF cl_arg = HVACMode_OFF
             THEN /\ DOMAIN HvacModeSent = {"UserAirconSettings.isOn"}
                  /\ HvacModeSent["UserAirconSettings.isOn"] = FALSE
                  /\ HvacModeOf([coord_data EXCEPT !.is_on = FALSE]) = cl_arg
             ELSE /\ DOMAIN HvacModeSent = {"UserAirconSettings.isOn", "UserAirconSettings.Mode"}
                  /\ HvacModeSent["UserAirconSettings.isOn"] = TRUE
                  /\ HvacModesGet(HvacModeSent["UserAirconSettings.Mode"], None) = cl_arg
                  /\ HvacModeOf([coord_data EXCEPT
                                   !.is_on = HvacModeSent["UserAirconSettings.isOn"],
                                   !.mode = HvacModeSent["UserAirconSettings.Mode"]]) = cl_arg

C13_Witness ==
    /\ cl_op = "async_set_hvac_mode"
    /\ cl_arg = HVACMode_FAN_ONLY
    /\ cl_result = Returned(None)
    /\ HvacModeSent["UserAirconSettings.Mode"] = "FAN"
    /\ coord_data.is_on /\ coord_data.mode = "FAN"
    /\ hvac_mode = cl_arg

-----------------------------------------------------------------------------
(* Properties of the zone sensors, checked under SpecSensor *)

\* the last async_update has ended and its status fetch raised
UpdateFailed == sn_pc = "idle" /\ sn_fetch = "raised"

\* C14: async_update of a zone sensor never raises: when the status fetch raises, the
\* error is swallowed and the sensor's state afterwards is None, whatever value it held
\* before the failed update.
C14_FailureResetsState ==
    /\ sn_result.kind # "raise"
    /\ UpdateFailed => (sn_result = Returned(None) /\ sn_state[sn_kind] = None)

\* what the code does do (lines 51-52): the failed update never raises, logs once, and
\* leaves every sensor's state as it was
C14_FailureKeepsState ==
    /\ sn_result.kind # "raise"
    /\ UpdateFailed =>
          /\ sn_result = Returned(None)
          /\ Len(sn_log) = 1
          /\ sn_state[sn_kind] = sn_before

\* a failed update of a sensor that held a reading
C14_StaleReading == UpdateFailed /\ sn_before # None /\ sn_state[sn_kind] = sn_before

-----------------------------------------------------------------------------
(* Properties of what the entities report, checked under SpecViews *)

\* the zone entity: is_on false reads as OFF with no target; the target is the cool
\* setpoint in COOL, the heat setpoint in HEAT, None in every other mode
C19_ZoneView ==
    cl_view # Unread =>
        /\ ~coord_data.is_on =>
              (cl_view.hvac_mode = HVACMode_OFF /\ cl_view.target_temperature = None)
        /\ cl_view.hvac_mode = HVACMode_COOL =>
              cl_view.target_temperature = coord_data.setpoint_cool
        /\ cl_view.hvac_mode = HVACMode_HEAT =>
              cl_view.target_temperature = coord_data.setpoint_heat
        /\ cl_view.hvac_mode \notin {HVACMode_COOL, HVACMode_HEAT} =>
              cl_view.target_temperature = None

\* the system entity: the same, on coordinator.data['main'] and its keys
C19_SystemView ==
    neo_view # Unread =>
        /\ ("is_on" \in DOMAIN neo_data => ~neo_data["is_on"]) =>
              (neo_view.hvac_mode = HVACMode_OFF /\ neo_view.target_temperature = None)
        /\ neo_view.hvac_mode = HVACMode_COOL =>
              neo_view.target_temperature = Get(neo_data, "temp_setpoint_cool", None)
        /\ neo_view.hvac_mode = HVACMode_HEAT =>
              neo_view.target_temperature = Get(neo_data, "temp_setpoint_heat", None)
        /\ neo_view.hvac_mode \notin {HVACMode_COOL, HVACMode_HEAT} =>
              neo_view.target_temperature = None

\* C19: in both climate entities, a snapshot whose main.is_on is false reads as hvac_mode
\* OFF, whatever main.mode holds, and as target_temperature None; target_temperature is
\* the cool setpoint when hvac_mode is COOL, the heat setpoint when it is HEAT, and None
\* in every other mode.
C19_ModeAndTarget == C19_ZoneView /\ C19_SystemView

\* the zone entity read while cooling, the system entity read while off with mode cool
C19_Witness ==
    /\ coord_data.is_on /\ coord_data.mode = "COOL"
    /\ cl_view = [hvac_mode |-> HVACMode_COOL, target_temperature |-> "25.5"]
    /\ "is_on" \in DOMAIN neo_data /\ ~neo_data["is_on"]
    /\ "mode" \in DOMAIN neo_data /\ neo_data["mode"] = HVACMode_COOL
    /\ neo_view = [hvac_mode |-> HVACMode_OFF, target_temperature |-> None]

====
